---- MODULE Spec2Model ----
(***************************************************************************)
(* Provides side of the openstack-integration interface (src/provides.py): *)
(* OpenStackIntegrationProvides (the request registry and the              *)
(* requests-pending flag) and IntegrationRequest (one remote unit's        *)
(* request, a view on the relation's published data).                      *)
(***************************************************************************)
EXTENDS Integers, Sequences, FiniteSets, TLC

VARIABLES
    all_joined_units,  \* Endpoint.all_joined_units: the joined remote units, in bus order
    to_publish,        \* relation id -> the data this side publishes on that relation
    requests_pending,  \* flag endpoint.{endpoint_name}.requests-pending
    changed,           \* flag endpoint.{endpoint_name}.changed
    _all_requests,     \* the instance attribute _all_requests: [has, val]
    last,              \* the operation that ran last
    phase              \* position in the usage scenario of the class docstring

vars == <<all_joined_units, to_publish, requests_pending, changed,
          _all_requests, last, phase>>

----------------------------------------------------------------------------
(* Bounds of the model *)

\* At most this many remote units are joined at a time.
MaxJoined == 2

----------------------------------------------------------------------------
(* Python values: None, str, bool and dict (a dict is a set of <<key, value>> *)
(* pairs with distinct keys).                                                 *)

None == [kind |-> "none", s |-> "", d |-> {}]
Str(x) == [kind |-> "str", s |-> x, d |-> {}]
Bool(b) == [kind |-> "bool", s |-> IF b THEN "True" ELSE "False", d |-> {}]
Dict(pairs) == [kind |-> "dict", s |-> "", d |-> pairs]

\* Python truth value of v, as used by `not data` and `v or ""`.
Truthy(v) ==
    CASE v.kind = "none" -> FALSE
      [] v.kind = "str"  -> v.s # ""
      [] v.kind = "bool" -> v.s = "True"
      [] v.kind = "dict" -> v.d # {}

\* isinstance(v, dict)
IsDict(v) == v.kind = "dict"

\* dict.update(upd) on the mapping d: keys of upd are added or overwritten.
Update(d, upd) ==
    [k \in (DOMAIN d) \cup (DOMAIN upd) |-> IF k \in DOMAIN upd THEN upd[k] ELSE d[k]]

\* dict.get(key): None when the key is absent.
Get(d, key) == IF key \in DOMAIN d THEN d[key] ELSE None

EmptyData == [k \in {} |-> None]

----------------------------------------------------------------------------
(* Remote units and relations (the framework's objects the module reads) *)

Unit(name, rel) == [unit_name |-> name, relation |-> rel]

\* Two units of one relation and one unit of another relation.
Units == { Unit("kubernetes-master/0", "openstack:1"),
           Unit("kubernetes-master/1", "openstack:1"),
           Unit("kubernetes-worker/0", "openstack:2") }

Relations == { u.relation : u \in Units }

RECURSIVE SeqToSet(_)
SeqToSet(s) == IF s = <<>> THEN {} ELSE {Head(s)} \cup SeqToSet(Tail(s))

RECURSIVE Remove(_, _)
Remove(s, x) ==
    IF s = <<>> THEN <<>>
    ELSE IF Head(s) = x THEN Remove(Tail(s), x)
    ELSE <<Head(s)>> \o Remove(Tail(s), x)

----------------------------------------------------------------------------
(* IntegrationRequest *)

\* IntegrationRequest.__init__
IntegrationRequest(unit) == [_unit |-> unit]

\* Mutant: one published mapping shared by every request of the endpoint.
to_publish_key_shared(r) == "openstack:1"

\* IntegrationRequest._to_publish: the published data of the unit's RELATION.
to_publish_key(r) == r._unit.relation
_to_publish(r) == to_publish[to_publish_key(r)]

\* IntegrationRequest.unit_name
unit_name(r) == r._unit.unit_name

\* IntegrationRequest.has_credentials
has_credentials(r) == "credentials" \in DOMAIN _to_publish(r)

\* Mutant: the negation is dropped.
is_changed_inverted(r) == has_credentials(r)

\* IntegrationRequest.is_changed
is_changed(r) == ~has_credentials(r)

\* Mutant: the value is returned as stored, without `or ""`.
proxy_value_verbatim(v) == v

\* IntegrationRequest.proxy_config (read)
proxy_value(v) == IF Truthy(v) THEN v ELSE Str("")
proxy_config(r) ==
    LET data == Get(_to_publish(r), "proxy_config")
    IN  IF ~Truthy(data) \/ ~IsDict(data)
        THEN {}
        ELSE { <<p[1], proxy_value(p[2])>> : p \in data.d }

----------------------------------------------------------------------------
(* Argument lists of the setters *)

\* set_credentials(auth_url, region, username, password, user_domain_name,
\*                 project_domain_name, project_name, endpoint_tls_ca, *_,
\*                 domain_id=None, domain_name=None, project_id=None,
\*                 project_domain_id=None, user_domain_id=None, version=None):
\* the keyword arguments left at their default, or a version given.
CredentialArgs ==
    [auth_url : {Str("https://keystone:5000/v3")}, region : {Str("RegionOne")},
     username : {Str("admin")}, password : {Str("s3cret")},
     user_domain_name : {Str("Default")}, project_domain_name : {Str("Default")},
     project_name : {Str("k8s")}, endpoint_tls_ca : {Str("")},
     domain_id : {None}, domain_name : {None}, project_id : {None},
     project_domain_id : {None}, user_domain_id : {None},
     version : {None, Str("3")}]

\* set_lbaas_config(subnet_id, floating_network_id, lb_method,
\*                  manage_security_groups, has_octavia=None, lb_enabled=None,
\*                  internal_lb=False)
LbaasArgs ==
    { [subnet_id |-> Str("subnet-1"), floating_network_id |-> Str("net-1"),
       lb_method |-> Str("ROUND_ROBIN"), manage_security_groups |-> Bool(TRUE),
       has_octavia |-> None, lb_enabled |-> None, internal_lb |-> Bool(FALSE)] }

\* set_block_storage_config(bs_version, trust_device_path, ignore_volume_az)
BlockStorageArgs ==
    { [bs_version |-> Str("v3"), trust_device_path |-> Bool(FALSE),
       ignore_volume_az |-> None] }

\* set_proxy_config(proxy_config): mappings from "host", "port" to str or None,
\* and two arguments that are no mapping (Python does not check the annotation).
ProxyKeys == {"host", "port"}
ProxyValues == {None, Str(""), Str("proxy.example")}
ProxyMappings ==
    { Dict({ <<k, f[k]>> : k \in ks }) : f \in [ProxyKeys -> ProxyValues],
                                         ks \in SUBSET ProxyKeys }
ProxyArgs == ProxyMappings \cup {None, Str("proxy.example:8080")}

\* The argument lists used where the registry, not the request, is under study.
RegistryCredentialArgs == { a \in CredentialArgs : a.version = None }
RegistryProxyArgs == { Dict({<<"host", Str("proxy.example")>>, <<"port", None>>}) }

----------------------------------------------------------------------------
(* The usage scenario of the class docstring, followed as the operations run: *)
(* start -check_requests-> raised -set_credentials-> answered                 *)
(* -mark_completed-> completed, left ("off") when the unit's data changes     *)
(* again or the set of joined units changes.  Reads and a new instance keep   *)
(* the position.                                                              *)

Reads == {"all_requests", "new_requests", "proxy_config", "has_credentials",
          "is_changed"}

Monitor(ph, op) ==
    CASE ph = "off" -> "off"
      [] op \in Reads \cup {"new_instance"} -> ph
      [] ph = "start" /\ op = "check_requests" -> "raised"
      [] ph = "raised" /\ op = "set_credentials" -> "answered"
      [] ph = "answered" /\ op = "set_credentials" -> "answered"
      [] ph = "answered" /\ op = "mark_completed" -> "completed"
      [] ph = "completed" /\ op \in {"mark_completed", "set_credentials",
                                     "set_lbaas_config", "set_block_storage_config",
                                     "set_proxy_config", "check_requests"}
             -> "completed"
      [] OTHER -> "off"

Track(op) == last' = op /\ phase' = Monitor(phase, op)

----------------------------------------------------------------------------
(* OpenStackIntegrationProvides *)

\* Mutant: the joined units are scanned on every read, the attribute ignored.
all_requests_rescan ==
    [i \in 1..Len(all_joined_units) |-> IntegrationRequest(all_joined_units[i])]

\* Mutant: the requests are built in reverse order of the joined units.
all_requests_reversed ==
    IF _all_requests.has
    THEN _all_requests.val
    ELSE [i \in 1..Len(all_joined_units) |->
            IntegrationRequest(all_joined_units[Len(all_joined_units) + 1 - i])]

\* The value the all_requests property returns in the current state.
all_requests ==
    IF _all_requests.has
    THEN _all_requests.val
    ELSE [i \in 1..Len(all_joined_units) |-> IntegrationRequest(all_joined_units[i])]

\* The attribute _all_requests after all_requests was read.
all_requests_read == [has |-> TRUE, val |-> all_requests]

\* filter(pred, seq) with pred = attrgetter('is_changed')
RECURSIVE filter_is_changed(_)
filter_is_changed(seq) ==
    IF seq = <<>> THEN <<>>
    ELSE IF is_changed(Head(seq))
         THEN <<Head(seq)>> \o filter_is_changed(Tail(seq))
         ELSE filter_is_changed(Tail(seq))

\* The value the new_requests property returns in the current state.
new_requests == filter_is_changed(all_requests)

\* toggle_flag(flag, should_set): the flag's new value.
toggle_flag(should_set) == should_set

\* Mutant: clear_flag(changed) is forgotten.
check_requests_keeps_changed ==
    /\ changed
    /\ _all_requests' = all_requests_read
    /\ requests_pending' = toggle_flag(Len(all_requests) > 0)
    /\ Track("check_requests")
    /\ UNCHANGED <<all_joined_units, to_publish, changed>>

\* @when('endpoint.{endpoint_name}.changed') check_requests
check_requests ==
    /\ changed
    /\ _all_requests' = all_requests_read
    /\ requests_pending' = toggle_flag(Len(all_requests) > 0)
    /\ changed' = FALSE
    /\ Track("check_requests")
    /\ UNCHANGED <<all_joined_units, to_publish>>

\* reading the all_requests property
read_all_requests ==
    /\ _all_requests' = all_requests_read
    /\ Track("all_requests")
    /\ UNCHANGED <<all_joined_units, to_publish, requests_pending, changed>>

\* reading the new_requests property
read_new_requests ==
    /\ _all_requests' = all_requests_read
    /\ Track("new_requests")
    /\ UNCHANGED <<all_joined_units, to_publish, requests_pending, changed>>

\* Mutant: the changed flag is cleared with the requests-pending flag.
mark_completed_clears_changed ==
    /\ requests_pending' = FALSE
    /\ changed' = FALSE
    /\ Track("mark_completed")
    /\ UNCHANGED <<all_joined_units, to_publish, _all_requests>>

\* mark_completed()
mark_completed ==
    /\ requests_pending' = FALSE
    /\ Track("mark_completed")
    /\ UNCHANGED <<all_joined_units, to_publish, changed, _all_requests>>

----------------------------------------------------------------------------
(* IntegrationRequest setters, called on the i-th request of all_requests *)

HasRequest(i) == _all_requests.has /\ i \in 1..Len(_all_requests.val)
Request(i) == _all_requests.val[i]

\* self._to_publish.update(record)
publish(r, record) ==
    to_publish' = [to_publish EXCEPT ![to_publish_key(r)] = Update(@, record)]

credentials_record(a) ==
    [k \in {"auth_url", "region", "username", "password", "domain_id",
            "domain_name", "endpoint_tls_ca", "project_domain_name",
            "project_domain_id", "project_id", "project_name",
            "user_domain_id", "user_domain_name", "version"} |-> a[k]]

\* Mutant: answering a request also removes the requests-pending flag.
set_credentials_completes(i, a) ==
    /\ HasRequest(i)
    /\ publish(Request(i), credentials_record(a))
    /\ requests_pending' = FALSE
    /\ Track("set_credentials")
    /\ UNCHANGED <<all_joined_units, changed, _all_requests>>

set_credentials(i, a) ==
    /\ HasRequest(i)
    /\ publish(Request(i), credentials_record(a))
    /\ Track("set_credentials")
    /\ UNCHANGED <<all_joined_units, requests_pending, changed, _all_requests>>

lbaas_record(a) ==
    [k \in {"subnet_id", "floating_network_id", "lb_method", "internal_lb",
            "manage_security_groups", "has_octavia", "lb_enabled"} |-> a[k]]

set_lbaas_config(i, a) ==
    /\ HasRequest(i)
    /\ publish(Request(i), lbaas_record(a))
    /\ Track("set_lbaas_config")
    /\ UNCHANGED <<all_joined_units, requests_pending, changed, _all_requests>>

block_storage_record(a) ==
    [k \in {"bs_version", "trust_device_path", "ignore_volume_az"} |-> a[k]]

set_block_storage_config(i, a) ==
    /\ HasRequest(i)
    /\ publish(Request(i), block_storage_record(a))
    /\ Track("set_block_storage_config")
    /\ UNCHANGED <<all_joined_units, requests_pending, changed, _all_requests>>

proxy_record(m) == [k \in {"proxy_config"} |-> m]

set_proxy_config(i, m) ==
    /\ HasRequest(i)
    /\ publish(Request(i), proxy_record(m))
    /\ Track("set_proxy_config")
    /\ UNCHANGED <<all_joined_units, requests_pending, changed, _all_requests>>

\* reading proxy_config, has_credentials or is_changed of a request
read_proxy_config(i) ==
    /\ HasRequest(i)
    /\ Track("proxy_config")
    /\ UNCHANGED <<all_joined_units, to_publish, requests_pending, changed, _all_requests>>

read_has_credentials(i) ==
    /\ HasRequest(i)
    /\ Track("has_credentials")
    /\ UNCHANGED <<all_joined_units, to_publish, requests_pending, changed, _all_requests>>

read_is_changed(i) ==
    /\ HasRequest(i)
    /\ Track("is_changed")
    /\ UNCHANGED <<all_joined_units, to_publish, requests_pending, changed, _all_requests>>

----------------------------------------------------------------------------
(* The relation bus and the reactive framework around the module *)

\* A remote unit joins: it is appended to all_joined_units and the framework
\* sets the changed flag.
Join(u) ==
    /\ u \notin SeqToSet(all_joined_units)
    /\ Len(all_joined_units) < MaxJoined
    /\ all_joined_units' = Append(all_joined_units, u)
    /\ changed' = TRUE
    /\ Track("join")
    /\ UNCHANGED <<to_publish, requests_pending, _all_requests>>

\* A remote unit departs.
Depart(u) ==
    /\ u \in SeqToSet(all_joined_units)
    /\ all_joined_units' = Remove(all_joined_units, u)
    /\ Track("depart")
    /\ UNCHANGED <<to_publish, requests_pending, changed, _all_requests>>

\* A joined unit's relation data changes: the framework sets the changed flag.
RemoteChange(u) ==
    /\ u \in SeqToSet(all_joined_units)
    /\ changed' = TRUE
    /\ Track("remote_change")
    /\ UNCHANGED <<all_joined_units, to_publish, requests_pending, _all_requests>>

\* A later hook builds a new OpenStackIntegrationProvides: the instance has
\* no _all_requests attribute; flags and published data persist.
NewInstance ==
    /\ _all_requests.has
    /\ _all_requests' = [has |-> FALSE, val |-> <<>>]
    /\ Track("new_instance")
    /\ UNCHANGED <<all_joined_units, to_publish, requests_pending, changed>>

----------------------------------------------------------------------------------------------------------------------------------------
(* Specifications *)

\* Data found on a relation when the endpoint is constructed: nothing, or an
\* entry under 'credentials' left by an earlier writer of the relation data.
StoredData == { EmptyData, [k \in {"credentials"} |-> Str("stored")] }

Requests == DOMAIN _all_requests.val

InitCommon ==
    /\ requests_pending = FALSE
    /\ _all_requests = [has |-> FALSE, val |-> <<>>]
    /\ last = "init"

\* The registry: units of two relations join, change and depart, hooks come
\* and go, requests are answered with credentials.
Init ==
    /\ InitCommon
    /\ all_joined_units = <<>>
    /\ to_publish \in [Relations -> StoredData]
    /\ changed = FALSE
    /\ phase = "off"

Next ==
    \/ \E u \in Units : Join(u)
    \/ \E u \in Units : Depart(u)
    \/ \E u \in Units : RemoteChange(u)
    \/ NewInstance
    \/ check_requests
    \/ read_all_requests
    \/ read_new_requests
    \/ mark_completed
    \/ \E i \in Requests, a \in RegistryCredentialArgs : set_credentials(i, a)

Spec == Init /\ [][Next]_vars

\* Every operation of the module, with the units of one relation.
SiblingUnits == { u \in Units : u.relation = "openstack:1" }

OperationsNext ==
    \/ \E u \in SiblingUnits : Join(u)
    \/ \E u \in SiblingUnits : Depart(u)
    \/ \E u \in SiblingUnits : RemoteChange(u)
    \/ NewInstance
    \/ check_requests
    \/ read_all_requests
    \/ read_new_requests
    \/ mark_completed
    \/ \E i \in Requests, a \in RegistryCredentialArgs : set_credentials(i, a)
    \/ \E i \in Requests, a \in LbaasArgs : set_lbaas_config(i, a)
    \/ \E i \in Requests, a \in BlockStorageArgs : set_block_storage_config(i, a)
    \/ \E i \in Requests, m \in RegistryProxyArgs : set_proxy_config(i, m)
    \/ \E i \in Requests : read_proxy_config(i)
    \/ \E i \in Requests : read_has_credentials(i)
    \/ \E i \in Requests : read_is_changed(i)

SpecOperations == Init /\ [][OperationsNext]_vars

\* The requests of three joined units, answered through every setter.
EstablishedUnits ==
    << Unit("kubernetes-master/0", "openstack:1"),
       Unit("kubernetes-worker/0", "openstack:2"),
       Unit("kubernetes-master/1", "openstack:1") >>

RequestInit ==
    /\ InitCommon
    /\ all_joined_units = EstablishedUnits
    /\ to_publish = [rel \in Relations |-> EmptyData]
    /\ changed = FALSE
    /\ phase = "off"

RequestNext ==
    \/ read_all_requests
    \/ \E i \in Requests, a \in CredentialArgs : set_credentials(i, a)
    \/ \E i \in Requests, a \in LbaasArgs : set_lbaas_config(i, a)
    \/ \E i \in Requests, a \in BlockStorageArgs : set_block_storage_config(i, a)
    \/ \E i \in Requests, m \in RegistryProxyArgs : set_proxy_config(i, m)
    \/ \E i \in Requests : read_proxy_config(i)
    \/ \E i \in Requests : read_has_credentials(i)
    \/ \E i \in Requests : read_is_changed(i)

SpecRequest == RequestInit /\ [][RequestNext]_vars

\* The proxy configuration of the same requests, written and read back.
ProxyNext ==
    \/ read_all_requests
    \/ \E i \in Requests, m \in ProxyArgs : set_proxy_config(i, m)
    \/ \E i \in Requests : read_proxy_config(i)
    \/ \E i \in Requests, a \in RegistryCredentialArgs : set_credentials(i, a)

SpecProxy == RequestInit /\ [][ProxyNext]_vars

\* The scenario of the class docstring: one unit has joined, nothing is
\* published for it, and the changed flag is set.
ScenarioInit ==
    /\ InitCommon
    /\ \E u \in Units : all_joined_units = <<u>>
    /\ to_publish = [rel \in Relations |-> EmptyData]
    /\ changed = TRUE
    /\ phase = "start"

SpecScenario == ScenarioInit /\ [][Next]_vars

----------------------------------------------------------------------------
(* Properties *)

Setters == {"set_credentials", "set_lbaas_config", "set_block_storage_config",
            "set_proxy_config"}

NoCredentials(r) == ~has_credentials(r)

C2_CredentialsSeen ==
    [][\A i \in Requests, a \in CredentialArgs :
          set_credentials(i, a) =>
              (has_credentials(Request(i)) /\ ~is_changed(Request(i)))']_vars

\* C3: in the scenario, the change notification raises requests-pending, and
\* from set_credentials + mark_completed on it is clear in every state until
\* the unit's data changes again.
C3_Scenario ==
    /\ phase = "raised" => requests_pending
    /\ phase = "completed" => ~requests_pending

C3_Witness ==
    /\ phase = "completed"
    /\ last = "new_requests"
    /\ Len(all_joined_units) = 1
    /\ "auth_url" \in DOMAIN to_publish[all_joined_units[1].relation]
    /\ ~requests_pending

C5_NewRequests ==
    /\ [](/\ new_requests = SelectSeq(all_requests, NoCredentials)
          /\ new_requests = SelectSeq(all_requests, is_changed))
    /\ [][last' = "new_requests" =>
            UNCHANGED <<to_publish, requests_pending, changed>>]_vars

C5_Witness ==
    /\ last = "new_requests"
    /\ Len(all_requests) = 2
    /\ Len(new_requests) = 1
    /\ new_requests[1] = all_requests[2]

\* C6: when all_requests is computed it holds one request per joined unit and
\* no other, in the order of the joined units (none when no unit is joined).
PerUnit(requests, joined) ==
    /\ Len(requests) = Len(joined)
    /\ \A i \in 1..Len(joined) :
          requests[i]._unit = joined[i] /\ unit_name(requests[i]) = joined[i].unit_name

NullToEmpty(v) == IF v = None THEN Str("") ELSE v
Normalized(m) == { <<p[1], NullToEmpty(p[2])>> : p \in m.d }
Keys(pairs) == { p[1] : p \in pairs }

C7_ProxyRoundTrip ==
    /\ [][\A i \in Requests, m \in ProxyMappings :
            (last' = "set_proxy_config" /\ set_proxy_config(i, m)) =>
                /\ proxy_config(Request(i))' = Normalized(m)
                /\ Keys(proxy_config(Request(i)))' = Keys(m.d)]_vars
    /\ [](\A i \in DOMAIN all_requests :
            LET stored == _to_publish(all_requests[i])
            IN  ("proxy_config" \notin DOMAIN stored \/ ~IsDict(stored["proxy_config"]))
                    => proxy_config(all_requests[i]) = {})

C7_Witness ==
    /\ last = "proxy_config"
    /\ \E i \in Requests :
          /\ Get(_to_publish(Request(i)), "proxy_config") =
                 Dict({<<"host", Str("proxy.example")>>, <<"port", None>>})
          /\ proxy_config(Request(i)) =
                 {<<"host", Str("proxy.example")>>, <<"port", Str("")>>}

\* C8 as claimed: a setter called on one request leaves everything readable
\* through any other request unchanged, also for two units of one relation.
Readable(r) == <<_to_publish(r), proxy_config(r), has_credentials(r), is_changed(r)>>

SetterOn(i) ==
    \/ \E a \in CredentialArgs : set_credentials(i, a)
    \/ \E a \in LbaasArgs : set_lbaas_config(i, a)
    \/ \E a \in BlockStorageArgs : set_block_storage_config(i, a)
    \/ \E m \in RegistryProxyArgs : set_proxy_config(i, m)

C9_Memoized ==
    [][_all_requests.has /\ last' # "new_instance" =>
          /\ _all_requests' = _all_requests
          /\ all_requests' = _all_requests.val]_vars

C9_Witness ==
    /\ last = "all_requests"
    /\ _all_requests.has
    /\ ~PerUnit(_all_requests.val, all_joined_units)

\* C10: requests-pending starts clear; it is raised only by check_requests,
\* cleared only by a check_requests that finds no changed request or by
\* mark_completed, and no setter and no read changes it.
C10_PendingTransitions ==
    /\ ~requests_pending
    /\ [][/\ (~requests_pending /\ requests_pending') => last' = "check_requests"
          /\ (requests_pending /\ ~requests_pending') =>
                \/ last' = "check_requests" /\ new_requests' = <<>>
                \/ last' = "mark_completed"
          /\ last' \in Setters \cup Reads => requests_pending' = requests_pending]_vars

C10_Witness ==
    /\ last \in Setters
    /\ requests_pending
    /\ \E i \in Requests : "proxy_config" \in DOMAIN _to_publish(Request(i))

====
